---- MODULE Spec2Model ----
(***************************************************************************)
(* Model of scripts/validate_yaml.py, the YAML configuration validator of  *)
(* the firewall GitOps repository: schema loading, file discovery under    *)
(* clusters/, per-file syntax and schema validation, the cluster/objects   *)
(* reference check and the exit status.                                    *)
(*                                                                         *)
(* A path is a sequence of tokens; "/" is the separator token and a file   *)
(* name is split at the places where the code's string tests                *)
(* (endswith("objects.yaml"), the glob "*.yaml") can tell names apart.      *)
(***************************************************************************)
EXTENDS Integers, Sequences, FiniteSets, TLC

(* ------------------------------ bounds -------------------------------- *)

\* Number of entries that may exist under clusters/.
MaxClusterDirs == 2
\* Number of files of the repository whose content is not valid.
MaxBadFiles == 1
\* Number of times the validator is run on the unchanged repository.
MaxRuns == 2

(* --------------------------- paths and names --------------------------- *)

Sep == "/"

\* Names the entries of clusters/ may have, in the order in which clusters/
\* lists them.
EntryNames == << <<"east">>, <<"west">>, <<"north">>, <<"south">> >>

ClustersRoot == <<"clusters">>
ClusterYaml == <<"cluster", ".yaml">>
ObjectsYaml == <<"objects", ".yaml">>
ObjectsFolderName == <<"objects">>

\* File names that may occur inside an objects/ folder, in the order in which
\* the folder lists them.
FolderFileNames ==
    << <<"web", ".yaml">>, <<"address-", "objects", ".yaml">>, <<"notes", ".txt">> >>

\* The contents an objects/ folder may have.
FolderContents ==
    { {<<"web", ".yaml">>, <<"notes", ".txt">>},
      {<<"address-", "objects", ".yaml">>} }

\* os.path.join(a, b)
Join(a, b) == a \o <<Sep>> \o b

SepPositions(p) == {k \in 1..Len(p) : p[k] = Sep}

MaxOf(S) == CHOOSE m \in S : \A k \in S : k <= m

\* os.path.dirname(p)
Dirname(p) ==
    IF SepPositions(p) = {} THEN <<>> ELSE SubSeq(p, 1, MaxOf(SepPositions(p)) - 1)

\* str.endswith
EndsWith(p, suffix) ==
    /\ Len(p) >= Len(suffix)
    /\ SubSeq(p, Len(p) - Len(suffix) + 1, Len(p)) = suffix

\* fnmatch of a file name against "*.yaml"
MatchesYamlGlob(name) == EndsWith(name, <<".yaml">>)

(* ----------------------------- sequences ------------------------------ *)

RECURSIVE Flatten(_)
Flatten(ss) == IF ss = <<>> THEN <<>> ELSE Head(ss) \o Flatten(Tail(ss))

Range(s) == {s[k] : k \in 1..Len(s)}

Count(s, e) == Cardinality({k \in 1..Len(s) : s[k] = e})

\* Every order in which the elements of a finite set can be enumerated.
RECURSIVE Orders(_)
Orders(S) ==
    IF S = {} THEN {<<>>}
    ELSE UNION {{<<x>> \o s : s \in Orders(S \ {x})} : x \in S}

(* --------------------------- the repository --------------------------- *)

\* What one entry clusters/<name> can be: a plain file, or a directory with
\* or without cluster.yaml, objects.yaml and an objects/ folder.
EntryLayouts(n) ==
    {[name |-> n, isDir |-> FALSE, cluster |-> FALSE, single |-> FALSE,
      folder |-> FALSE, files |-> {}]}
    \cup
    {[name |-> n, isDir |-> TRUE, cluster |-> c, single |-> s,
      folder |-> FALSE, files |-> {}] : c \in BOOLEAN, s \in BOOLEAN}
    \cup
    {[name |-> n, isDir |-> TRUE, cluster |-> c, single |-> s,
      folder |-> TRUE, files |-> fs] : c \in BOOLEAN, s \in BOOLEAN, fs \in FolderContents}

\* The listings clusters/ can have: some of the first MaxClusterDirs names,
\* each with a layout.
RECURSIVE TreesOver(_)
TreesOver(k) ==
    IF k > MaxClusterDirs THEN {<<>>}
    ELSE LET rest == TreesOver(k + 1)
         IN  rest \cup {<<e>> \o t : e \in EntryLayouts(EntryNames[k]), t \in rest}

Trees == TreesOver(1)

SchemaFileStates == {"valid", "absent", "malformed"}
ContentStates == {"valid", "bad_syntax", "bad_schema"}

None == "None"

VARIABLES
    tree,                   \* the entries of clusters/, in listing order
    schemaFiles,            \* state of the two schema files on disk
    content,                \* what each file read so far holds
    CLUSTER_CONFIG_SCHEMA,  \* module global, line 31
    FIREWALL_RULES_SCHEMA,  \* module global, line 32
    pc,                     \* position of the run
    cluster_configs,        \* main's local, line 128
    firewall_objects,       \* main's local, line 128
    found_under,            \* for each object file, the cluster_dir of the loop
                            \* iteration of find_yaml_files that found it
    idx,                    \* position of the running for loop
    errors,                 \* main's local, line 124
    objects_dirs,           \* validate_cluster_references' local, line 87
    calls,                  \* the calls made so far, as [fn, arg] records
    exit,                   \* <<status>> once main has returned, <<>> before
    run,                    \* number of the current run
    prev                    \* errors and exit status of the run before

vars == <<tree, schemaFiles, content, CLUSTER_CONFIG_SCHEMA, FIREWALL_RULES_SCHEMA,
          pc, cluster_configs, firewall_objects, found_under, idx, errors,
          objects_dirs, calls, exit, run, prev>>

(* --------------------------- the functions ---------------------------- *)

\* load_schema: the parsed schema, or None when the file is absent or is not JSON
load_schema(st) == IF st = "valid" THEN "schema" ELSE None

\* A test that needs both globals to be None
SchemasNotLoaded_both(cs, rs) == cs = None /\ rs = None

\* main's test of the two globals
SchemasNotLoaded(cs, rs) == cs = None \/ rs = None

ClusterDirOf(e) == Join(ClustersRoot, e.name)

\* glob.glob("clusters/*/cluster.yaml")
GlobClusterConfigs(t) ==
    LET hit(k) == IF t[k].isDir /\ t[k].cluster
                  THEN <<Join(ClusterDirOf(t[k]), ClusterYaml)>> ELSE <<>>
    IN  Flatten([k \in 1..Len(t) |-> hit(k)])

\* glob.glob(os.path.join(objects_folder, "*.yaml"))
GlobObjectsFolder(e) ==
    LET folder == Join(ClusterDirOf(e), ObjectsFolderName)
        names == SelectSeq(FolderFileNames,
                           LAMBDA n : n \in e.files /\ MatchesYamlGlob(n))
    IN  [k \in 1..Len(names) |-> Join(folder, names[k])]

\* One iteration of the loop of find_yaml_files: what it appends for cluster_dir
ObjectsFoundIn(e) ==
    IF ~e.isDir THEN <<>>
    ELSE (IF e.single THEN <<Join(ClusterDirOf(e), ObjectsYaml)>> ELSE <<>>)
         \o (IF e.folder THEN GlobObjectsFolder(e) ELSE <<>>)

\* find_yaml_files: the second component of its result
FindFirewallObjects(t) == Flatten([k \in 1..Len(t) |-> ObjectsFoundIn(t[k])])

\* For each element of FindFirewallObjects(t), the cluster_dir it was found in
FoundUnder(t) ==
    Flatten([k \in 1..Len(t) |->
                [j \in 1..Len(ObjectsFoundIn(t[k])) |-> ClusterDirOf(t[k])]])

SyntaxError(p) == [kind |-> "syntax", path |-> p]
SchemaError(p) == [kind |-> "schema", path |-> p]
MissingObjects(d) == [kind |-> "missing", path |-> d]
OrphanedObjects(d) == [kind |-> "orphaned", path |-> d]

\* validate_yaml_syntax: is_valid
validate_yaml_syntax(st) == st # "bad_syntax"

\* validate_schema: is_valid
validate_schema(st) == st # "bad_schema"

\* An iteration that falls through to validate_schema after a syntax error
ValidateOne_fallthrough(p, st) ==
    IF ~validate_yaml_syntax(st)
    THEN [errs |-> <<SyntaxError(p), SchemaError(p)>>, schema_checked |-> TRUE]
    ELSE [errs |-> IF ~validate_schema(st) THEN <<SchemaError(p)>> ELSE <<>>,
          schema_checked |-> TRUE]

\* One iteration of a validation loop for file p holding st: the errors it
\* appends and whether it calls validate_schema (`continue` after a syntax error)
ValidateOne(p, st) ==
    IF ~validate_yaml_syntax(st)
    THEN [errs |-> <<SyntaxError(p)>>, schema_checked |-> FALSE]
    ELSE [errs |-> IF ~validate_schema(st) THEN <<SchemaError(p)>> ELSE <<>>,
          schema_checked |-> TRUE]

\* A loop that stops at the first file in error
NextIndex_break(i, errs, files) == IF errs # <<>> THEN Len(files) + 1 ELSE i + 1

\* Where a validation loop over files stands after the iteration for element
\* i, which appended errs: at the next element, whatever errs is
NextIndex(i, errs, files) == i + 1

\* validate_cluster_references: the directory an object file is counted for
ObjectsDirOf(p) ==
    IF EndsWith(p, ObjectsYaml) THEN Dirname(p) ELSE Dirname(Dirname(p))

ClusterDirs(cc) == {Dirname(cc[k]) : k \in 1..Len(cc)}

ObjectsDirs(fo) == {ObjectsDirOf(fo[k]) : k \in 1..Len(fo)}

\* The set difference with its operands swapped
MissingSet_swapped(cds, ods) == ods \ cds

MissingSet(cds, ods) == cds \ ods

OrphanedSet(cds, ods) == ods \ cds

\* The results validate_cluster_references can return: a Python set of
\* strings is iterated in an order that the hash seed of the process decides.
ReferenceErrors(cc, fo) ==
    LET missing == MissingSet(ClusterDirs(cc), ObjectsDirs(fo))
        orphaned == OrphanedSet(ClusterDirs(cc), ObjectsDirs(fo))
    IN  {[k \in 1..Len(m) |-> MissingObjects(m[k])]
           \o [k \in 1..Len(o) |-> OrphanedObjects(o[k])] :
         m \in Orders(missing), o \in Orders(orphaned)}

\* The test of errors inverted
ExitStatus_inverted(errs) == IF errs = <<>> THEN 1 ELSE 0

\* main: the status returned once errors is complete
ExitStatus(errs) == IF errs # <<>> THEN 1 ELSE 0

(* ----------------------------- the run -------------------------------- *)

BadFiles(c) == {p \in DOMAIN c : c[p] # "valid"}

\* A file read for the first time holds any content (within the bound on
\* invalid files); an unchanged file read again holds what it held.
Reads(p, st) ==
    IF p \in DOMAIN content THEN st = content[p]
    ELSE st = "valid" \/ Cardinality(BadFiles(content)) < MaxBadFiles

Call(fn, arg) == [fn |-> fn, arg |-> arg]

NoArg == <<>>

\* The state of a process that has imported the module: lines 31-32 have
\* loaded the two schemas and main is about to be called.
Fresh ==
    /\ CLUSTER_CONFIG_SCHEMA = load_schema(schemaFiles.cluster)
    /\ FIREWALL_RULES_SCHEMA = load_schema(schemaFiles.rules)
    /\ pc = "main"
    /\ cluster_configs = <<>>
    /\ firewall_objects = <<>>
    /\ found_under = <<>>
    /\ idx = 1
    /\ errors = <<>>
    /\ objects_dirs = {}
    /\ calls = {}
    /\ exit = <<>>

Init ==
    /\ tree \in Trees
    /\ schemaFiles \in [cluster : SchemaFileStates, rules : SchemaFileStates]
    /\ content = <<>>
    /\ run = 1
    /\ prev = <<>>
    /\ Fresh

\* Lines 119-122: main returns 1 when a schema is missing.
SchemaCheckFails ==
    /\ pc = "main"
    /\ SchemasNotLoaded(CLUSTER_CONFIG_SCHEMA, FIREWALL_RULES_SCHEMA)
    /\ exit' = <<1>>
    /\ pc' = "done"
    /\ UNCHANGED <<tree, schemaFiles, content, CLUSTER_CONFIG_SCHEMA,
                   FIREWALL_RULES_SCHEMA, cluster_configs, firewall_objects,
                   found_under, idx, errors, objects_dirs, calls, run, prev>>

\* Lines 124-134: find_yaml_files is called; main returns 0 when it finds nothing.
Discover ==
    /\ pc = "main"
    /\ ~SchemasNotLoaded(CLUSTER_CONFIG_SCHEMA, FIREWALL_RULES_SCHEMA)
    /\ cluster_configs' = GlobClusterConfigs(tree)
    /\ firewall_objects' = FindFirewallObjects(tree)
    /\ found_under' = FoundUnder(tree)
    /\ calls' = calls \cup {Call("find_yaml_files", NoArg)}
    /\ errors' = <<>>
    /\ idx' = 1
    /\ IF cluster_configs' = <<>> /\ firewall_objects' = <<>>
       THEN exit' = <<0>> /\ pc' = "done"
       ELSE exit' = exit /\ pc' = "clusters"
    /\ UNCHANGED <<tree, schemaFiles, content, CLUSTER_CONFIG_SCHEMA,
                   FIREWALL_RULES_SCHEMA, objects_dirs, run, prev>>

\* One iteration of a validation loop (lines 137-152 and 155-170) over files.
ValidateFile(files) ==
    /\ idx <= Len(files)
    /\ \E st \in ContentStates :
          LET p == files[idx]
              out == ValidateOne(p, st)
          IN  /\ Reads(p, st)
              /\ content' = (p :> st) @@ content
              /\ calls' = calls \cup {Call("validate_yaml_syntax", p)}
                          \cup (IF out.schema_checked
                                THEN {Call("validate_schema", p)} ELSE {})
              /\ errors' = errors \o out.errs
              /\ idx' = NextIndex(idx, out.errs, files)
    /\ UNCHANGED <<tree, schemaFiles, CLUSTER_CONFIG_SCHEMA, FIREWALL_RULES_SCHEMA,
                   pc, cluster_configs, firewall_objects, found_under,
                   objects_dirs, exit, run, prev>>

\* Lines 137-152: one cluster configuration file is validated.
ValidateClusterConfig ==
    /\ pc = "clusters"
    /\ ValidateFile(cluster_configs)

\* Line 137: the loop over cluster_configs is exhausted.
ClusterConfigsDone ==
    /\ pc = "clusters"
    /\ idx > Len(cluster_configs)
    /\ pc' = "objects"
    /\ idx' = 1
    /\ UNCHANGED <<tree, schemaFiles, content, CLUSTER_CONFIG_SCHEMA,
                   FIREWALL_RULES_SCHEMA, cluster_configs, firewall_objects,
                   found_under, errors, objects_dirs, calls, exit, run, prev>>

\* Lines 155-170: one firewall objects file is validated.
ValidateObjectsFile ==
    /\ pc = "objects"
    /\ ValidateFile(firewall_objects)

\* Line 155: the loop over firewall_objects is exhausted.
ObjectsFilesDone ==
    /\ pc = "objects"
    /\ idx > Len(firewall_objects)
    /\ pc' = "references"
    /\ UNCHANGED <<tree, schemaFiles, content, CLUSTER_CONFIG_SCHEMA,
                   FIREWALL_RULES_SCHEMA, cluster_configs, firewall_objects,
                   found_under, idx, errors, objects_dirs, calls, exit, run, prev>>

\* Lines 172-174: the reference check, its errors appended to errors.
CheckReferences ==
    /\ pc = "references"
    /\ \E ref_errors \in ReferenceErrors(cluster_configs, firewall_objects) :
          errors' = errors \o ref_errors
    /\ objects_dirs' = ObjectsDirs(firewall_objects)
    /\ calls' = calls \cup {Call("validate_cluster_references", NoArg)}
    /\ pc' = "report"
    /\ UNCHANGED <<tree, schemaFiles, content, CLUSTER_CONFIG_SCHEMA,
                   FIREWALL_RULES_SCHEMA, cluster_configs, firewall_objects,
                   found_under, idx, exit, run, prev>>

\* Lines 176-189: the errors are printed and main returns.
Report ==
    /\ pc = "report"
    /\ exit' = <<ExitStatus(errors)>>
    /\ pc' = "done"
    /\ UNCHANGED <<tree, schemaFiles, content, CLUSTER_CONFIG_SCHEMA,
                   FIREWALL_RULES_SCHEMA, cluster_configs, firewall_objects,
                   found_under, idx, errors, objects_dirs, calls, run, prev>>

\* The validator is started again, in a new process, on the unchanged repository.
RunAgain ==
    /\ pc = "done"
    /\ run < MaxRuns
    /\ run' = run + 1
    /\ prev' = <<[errors |-> errors, exit |-> exit]>>
    /\ CLUSTER_CONFIG_SCHEMA' = load_schema(schemaFiles.cluster)
    /\ FIREWALL_RULES_SCHEMA' = load_schema(schemaFiles.rules)
    /\ pc' = "main"
    /\ cluster_configs' = <<>>
    /\ firewall_objects' = <<>>
    /\ found_under' = <<>>
    /\ idx' = 1
    /\ errors' = <<>>
    /\ objects_dirs' = {}
    /\ calls' = {}
    /\ exit' = <<>>
    /\ UNCHANGED <<tree, schemaFiles, content>>

Next ==
    \/ SchemaCheckFails
    \/ Discover
    \/ ValidateClusterConfig
    \/ ClusterConfigsDone
    \/ ValidateObjectsFile
    \/ ObjectsFilesDone
    \/ CheckReferences
    \/ Report

Spec == Init /\ [][Next]_vars

NextTwice == Next \/ RunAgain

\* The run, repeated on the unchanged repository.
SpecTwice == Init /\ [][NextTwice]_vars

(* ---------------------------- properties ------------------------------ *)

Done == pc = "done"

\* Both schema files are present and hold valid JSON.
BothSchemaFilesLoad == schemaFiles.cluster = "valid" /\ schemaFiles.rules = "valid"

Entries == {tree[k] : k \in 1..Len(tree)}

\* The directory holds objects.yaml or at least one objects/<f>.yaml.
HasObjectSource(e) ==
    e.isDir /\ (e.single \/ (e.folder /\ \E n \in e.files : EndsWith(n, <<".yaml">>)))

\* The directory holds cluster.yaml and neither objects.yaml nor objects/.
LacksObjectSource(e) == e.isDir /\ e.cluster /\ ~e.single /\ ~e.folder

IsPrefix(d, p) == Len(d) <= Len(p) /\ SubSeq(p, 1, Len(d)) = d

ErrorsOfKind(kind) == {k \in 1..Len(errors) : errors[k].kind = kind}

DiscoveredFiles == Range(cluster_configs) \cup Range(firewall_objects)

\* C1: when both schemas loaded, every directory clusters/<c> with a cluster.yaml
\* and no object source has exactly one missing-objects error naming clusters/<c>
\* in the final error list, and the run exits 1.
C1_MissingObjectsReported ==
    (Done /\ BothSchemaFilesLoad) =>
        \A e \in Entries :
            LacksObjectSource(e) =>
                /\ Count(errors, MissingObjects(ClusterDirOf(e))) = 1
                /\ exit = <<1>>

C1_Witness ==
    /\ Done
    /\ BothSchemaFilesLoad
    /\ \E e \in Entries :
          /\ LacksObjectSource(e)
          /\ MissingObjects(ClusterDirOf(e)) \in Range(errors)
    /\ \E e \in Entries : HasObjectSource(e)

\* C2: when both schemas loaded, every directory clusters/<c> with an object
\* source and no cluster.yaml has exactly one orphaned-objects error, which
\* names clusters/<c> itself and not a sub-folder of it, and the run exits 1.
C2_OrphanedObjectsReported ==
    (Done /\ BothSchemaFilesLoad) =>
        \A e \in Entries :
            (HasObjectSource(e) /\ ~e.cluster) =>
                /\ \A k \in ErrorsOfKind("orphaned") :
                      IsPrefix(ClusterDirOf(e), errors[k].path)
                          => errors[k].path = ClusterDirOf(e)
                /\ Count(errors, OrphanedObjects(ClusterDirOf(e))) = 1
                /\ exit = <<1>>

\* C3: when every directory under clusters/ has a cluster.yaml and an object
\* source (objects.yaml, objects/*.yaml or both) and every discovered file is
\* valid, the run reports no error and exits 0.
C3_WellFormedPasses ==
    (/\ Done
     /\ BothSchemaFilesLoad
     /\ \A e \in Entries : e.isDir => (e.cluster /\ HasObjectSource(e))
     /\ \A p \in DOMAIN content : content[p] = "valid")
        => (errors = <<>> /\ exit = <<0>>)

\* C4: validate_cluster_references counts every object file for the cluster
\* directory under which find_yaml_files discovered it.
C4_ObjectFileOwner ==
    (Call("validate_cluster_references", NoArg) \in calls) =>
        \A k \in 1..Len(firewall_objects) :
            /\ ObjectsDirOf(firewall_objects[k]) = found_under[k]
            /\ found_under[k] \in objects_dirs

\* C5: every discovered file contributes at most one per-file error: exactly
\* one syntax error and no call of validate_schema when it does not parse,
\* exactly one schema error when it parses and violates its schema, none
\* otherwise.
C5_OnePerFileError ==
    Done =>
        \A p \in DiscoveredFiles :
            LET syn == Count(errors, SyntaxError(p))
                sch == Count(errors, SchemaError(p))
            IN  /\ p \in DOMAIN content
                /\ syn + sch <= 1
                /\ content[p] = "bad_syntax" =>
                      (syn = 1 /\ Call("validate_schema", p) \notin calls)
                /\ content[p] = "bad_schema" => sch = 1
                /\ content[p] = "valid" => syn + sch = 0

C5_Witness ==
    /\ Done
    /\ \E p \in Range(cluster_configs) :
          /\ p \in DOMAIN content
          /\ content[p] = "bad_syntax"
          /\ SyntaxError(p) \in Range(errors)
    /\ firewall_objects # <<>>

\* C6: when both schemas loaded and a file was discovered, the run is at the
\* reporter or past it only when every discovered file has been examined and
\* the reference check has run, whichever files failed.
C6_FailSlow ==
    (/\ pc \in {"report", "done"}
     /\ BothSchemaFilesLoad
     /\ DiscoveredFiles # {})
        => /\ \A p \in DiscoveredFiles : Call("validate_yaml_syntax", p) \in calls
           /\ Call("validate_cluster_references", NoArg) \in calls

C6_Witness ==
    /\ pc = "report"
    /\ Len(cluster_configs) + Len(firewall_objects) >= 2
    /\ LET first == (cluster_configs \o firewall_objects)[1]
       IN  first \in DOMAIN content /\ content[first] # "valid"
    /\ \A p \in DiscoveredFiles : Call("validate_yaml_syntax", p) \in calls

\* C7: when a schema file is absent or is not JSON, the run ends with status 1
\* and find_yaml_files, the validation of files and the reference check are
\* never called.
C7_SchemaLoadFailureAborts ==
    ~BothSchemaFilesLoad =>
        /\ calls = {}
        /\ errors = <<>>
        /\ pc \in {"main", "done"}
        /\ Done => exit = <<1>>

C7_Witness ==
    /\ Done
    /\ schemaFiles.cluster = "valid"
    /\ schemaFiles.rules # "valid"
    /\ exit = <<1>>
    /\ GlobClusterConfigs(tree) # <<>>

\* C8: the exit status is 0 exactly when both schemas loaded and the final
\* error list is empty (also when nothing was found), 1 exactly when a schema
\* failed to load or the list holds an error, and nothing else.
C8_ExitStatus ==
    Done =>
        /\ exit \in {<<0>>, <<1>>}
        /\ exit = <<0>> <=> (BothSchemaFilesLoad /\ errors = <<>>)
        /\ exit = <<1>> <=> (~BothSchemaFilesLoad \/ errors # <<>>)
        /\ \A k \in 1..Len(errors) :
              errors[k].kind \in {"syntax", "schema", "missing", "orphaned"}

C8_Witness ==
    /\ Done
    /\ BothSchemaFilesLoad
    /\ tree # <<>>
    /\ Call("find_yaml_files", NoArg) \in calls
    /\ DiscoveredFiles = {}
    /\ exit = <<0>>

\* Position of file p in discovery order, and of the entry of clusters/ that
\* directory d is or lies under.
FilePos(p) ==
    LET all == cluster_configs \o firewall_objects
    IN  CHOOSE k \in 1..Len(all) : all[k] = p

DirPos(d) == CHOOSE k \in 1..Len(tree) : IsPrefix(ClusterDirOf(tree[k]), d)

IsReference(err) == err.kind \in {"missing", "orphaned"}

\* C9: in the final error list the reference errors follow the per-file
\* errors, and per-file, missing-objects and orphaned-objects errors each
\* appear in discovery order.
C9_DiscoveryOrder ==
    (Done /\ BothSchemaFilesLoad) =>
        \A a, b \in 1..Len(errors) :
            a < b =>
                /\ IsReference(errors[a]) => IsReference(errors[b])
                /\ (~IsReference(errors[a]) /\ ~IsReference(errors[b]))
                      => FilePos(errors[a].path) <= FilePos(errors[b].path)
                /\ (errors[a].kind = errors[b].kind /\ IsReference(errors[a]))
                      => DirPos(errors[a].path) <= DirPos(errors[b].path)

\* C10: a second run on the unchanged repository ends with the error list and
\* the exit status of the first.
C10_SameResultTwice ==
    (Done /\ prev # <<>>) =>
        (errors = prev[1].errors /\ exit = prev[1].exit)

====
